---- MODULE Spec2Model ----
(***************************************************************************)
(* Model of celona-api-client.                                             *)
(*                                                                         *)
(*   api_checker.py : the endpoint prober (get_call, batch_fetch_data and  *)
(*                    the __main__ script around them)                     *)
(*   api_logger.py  : the polling daemon (get_call, batch_fetch_data and   *)
(*                    the while-True loop of __main__)                     *)
(*                                                                         *)
(* Strings that the program takes apart or assembles (path keys, URLs) are *)
(* sequences of tokens, so that counting '/' and joining with '&' and '?'  *)
(* are computed, not assumed.                                              *)
(***************************************************************************)
EXTENDS Integers, Sequences, FiniteSets, TLC

VARIABLES
    \* ---- api_checker.py: inputs read by __main__ -----------------------
    api_key,          \* content of the API key file
    api_endpoints,    \* result of yaml.safe_load on the API description
    default_params,   \* result of json.load on the defaults file
    \* ---- api_checker.py: program state ---------------------------------
    pc,               \* position of the script
    fatal,            \* name of the uncaught exception, "" when none
    ep_list,          \* batch_fetch_data: the selected path keys
    idx,              \* batch_fetch_data: operations of ep_list already handled
    results,          \* batch_fetch_data: the list of outcomes
    fileWritten,      \* __main__: the output file was written
    \* ---- api_checker.py: environment -----------------------------------
    httpCalls,        \* number of requests.get calls performed in this run
    sleeps,           \* number of time.sleep(1) calls completed in this run
    sleptSeconds,     \* seconds slept by them
    lastUrl,          \* URL of the requests.get call just performed
    lastResp,         \* what the service did on that call
    \* ---- calling batch_fetch_data twice --------------------------------
    run,              \* 1 or 2
    firstResults,     \* what the first call returned
    service,          \* the answers the service has given, by URL
    \* ---- api_logger.py: the daemon -------------------------------------
    interval,         \* args.interval: the --interval option, in minutes
    dpc,              \* position of the daemon
    cycles,           \* fetch cycles started
    dCalls,           \* requests.get calls performed by the daemon
    dCycleCalls,      \* requests.get calls performed in the current cycle
    intervalSleeps,   \* time.sleep(interval * 60) calls completed
    sleptSinceCycle,  \* an interval sleep completed since the last cycle start
    failedSinceSleep, \* a cycle ended in an except branch and no interval sleep completed since
    enodebs,          \* output['enodebs'] of the current cycle
    logsWritten,      \* timestamped log files written
    latestWrites,     \* times latest.json was rewritten
    clock             \* monotonic clock: the latest reading time.sleep took of it,
                      \* plus the time it then slept

checkerVars == <<api_key, api_endpoints, default_params, pc, fatal, ep_list, idx,
                 results, fileWritten, httpCalls, sleeps, sleptSeconds, lastUrl,
                 lastResp>>
twiceVars   == <<run, firstResults, service>>
daemonVars  == <<interval, dpc, cycles, dCalls, dCycleCalls, intervalSleeps,
                 sleptSinceCycle, failedSinceSleep, enodebs, logsWritten,
                 latestWrites, clock>>
vars        == <<checkerVars, twiceVars, daemonVars>>

----------------------------------------------------------------------------
\* Bounds of the model

\* most entries of api_endpoints['paths']
MaxPaths == 2
\* most fetch cycles the daemon model follows
MaxCycles == 3

----------------------------------------------------------------------------
\* JSON values

\* A decoded JSON value: its Python type and, as val, the length of an object,
\* array or string, the value of a number, 1 for true and 0 for false and null.
JsonBodies ==
    { [kind |-> k, val |-> v] : k \in {"object", "array", "number", "string", "boolean"},
                                v \in 0..1 }
    \cup { [kind |-> "null", val |-> 0] }

\* dict()
EmptyDict == [kind |-> "object", val |-> 0]

\* Python truth value of a decoded JSON value, as `if result_json` takes it
Truthy(json) ==
    CASE json.kind = "null"    -> FALSE
      [] json.kind = "boolean" -> json.val = 1
      [] json.kind = "number"  -> json.val # 0
      [] OTHER                 -> json.val > 0

\* A scalar of the defaults file: a JSON number or a JSON string
NumValue(n) == [kind |-> "num", num |-> n, str |-> ""]
StrValue(s) == [kind |-> "str", num |-> 0, str |-> s]

Digits == <<"0", "1", "2", "3", "4", "5", "6", "7", "8", "9">>

RECURSIVE IntToStr(_)
IntToStr(n) ==
    IF n < 10 THEN Digits[n + 1]
    ELSE IntToStr(n \div 10) \o Digits[(n % 10) + 1]

\* f"{value}" of a defaults scalar
PyStr(v) == IF v.kind = "num" THEN IntToStr(v.num) ELSE v.str

----------------------------------------------------------------------------
\* Inputs

ParamNames == {"p", "q"}

\* One entry of a 'parameters' list: hasRequired says whether it has a
\* 'required' key at all.
Required(name)    == [name |-> name, hasRequired |-> TRUE,  required |-> TRUE]
Optional(name)    == [name |-> name, hasRequired |-> TRUE,  required |-> FALSE]
Unspecified(name) == [name |-> name, hasRequired |-> FALSE, required |-> FALSE]

SeqsUpTo(S, n) == UNION { [1..k -> S] : k \in 0..n }

\* The 'parameters' lists of the model: empty, one required entry, one
\* entry that says it is not required, two required entries in both orders,
\* and an entry without a 'required' key before a required one.
ParamLists ==
    { <<>>,
      <<Required("p")>>,
      <<Optional("q")>>,
      <<Required("p"), Required("q")>>,
      <<Required("q"), Required("p")>>,
      <<Unspecified("p"), Required("q")>> }

\* A path item: whether it has a 'get' operation and whether that operation has
\* a 'parameters' key.
PathItems ==
    { [hasGet |-> FALSE, hasParams |-> FALSE, parameters |-> <<>>],
      [hasGet |-> TRUE,  hasParams |-> FALSE, parameters |-> <<>>] }
    \cup { [hasGet |-> TRUE, hasParams |-> TRUE, parameters |-> ps] : ps \in ParamLists }

\* Path keys, character by character (an OpenAPI path starts with '/')
PathKeys == { <<"/", "a">>, <<"/", "b">>, <<"/", "a", "/", "b">> }

\* api_endpoints['paths']: a dict keeps insertion order and has no key twice
PathsMappings ==
    { s \in SeqsUpTo([key : PathKeys, item : PathItems], MaxPaths) :
        \A i, j \in DOMAIN s : i # j => s[i].key # s[j].key }

HostValue == "h"
BasePathValue == "/v1"

TopKeys == {"host", "basePath", "paths"}

\* What yaml.safe_load makes of the description file: it raises on a file that
\* is not YAML ("unparsable"), returns None for an empty file ("null") and a
\* dict otherwise: keys are the top-level keys the program reads that the dict
\* has, extra says whether it has any other key, and paths holds the path
\* items when the 'paths' key is there.
Descriptions ==
    { [kind |-> "unparsable", keys |-> {}, extra |-> FALSE, paths |-> <<>>],
      [kind |-> "null", keys |-> {}, extra |-> FALSE, paths |-> <<>>] }
    \cup { [kind |-> "map", keys |-> ks, extra |-> e, paths |-> <<>>] :
               ks \in (SUBSET TopKeys) \ {TopKeys}, e \in BOOLEAN }
    \cup { [kind |-> "map", keys |-> TopKeys, extra |-> TRUE, paths |-> ps] :
               ps \in PathsMappings }

WellFormedDescriptions == { d \in Descriptions : d.kind = "map" /\ d.keys = TopKeys }

DefaultValueOf(name) == IF name = "p" THEN NumValue(10) ELSE StrValue("x")

\* The defaults file: a flat JSON object
DefaultsMappings == { [n \in ns |-> DefaultValueOf(n)] : ns \in SUBSET ParamNames }

ApiKeys == {"", "k"}

\* What the service does on one GET: a transport failure, a body that is not
\* JSON, or a reply with a status and a JSON body. A 200 reply carries any
\* JSON value, an error reply a JSON object, empty or not.
Statuses == {200, 404, 500}
FailureKinds == {"ConnectionError", "Timeout", "RequestException"}
NullBody == [kind |-> "null", val |-> 0]
NoResp == [kind |-> "none", status |-> 0, body |-> NullBody]
Responses ==
    { [kind |-> k, status |-> 0, body |-> NullBody] : k \in FailureKinds }
    \cup { [kind |-> "NotJSON", status |-> 500, body |-> NullBody] }
    \cup { [kind |-> "json", status |-> 200, body |-> b] : b \in JsonBodies }
    \cup { [kind |-> "json", status |-> s, body |-> [kind |-> "object", val |-> v]] :
               s \in Statuses \ {200}, v \in 0..1 }

----------------------------------------------------------------------------
\* api_checker.py: get_call

\* get_call's return value (status code, decoded body) for what the service
\* did: requests.get raises on a transport failure and response.json() raises
\* ValueError on a body that is not JSON; every except branch falls through to
\* `return 500, dict()`.
NetworkErrorCode == 500

\* variant: an HTTP error status is handled like a failure, as by
\* raise_for_status
get_call_raise_for_status(resp) ==
    IF resp.kind = "json" /\ resp.status < 400
    THEN [code |-> resp.status, json |-> resp.body]
    ELSE [code |-> NetworkErrorCode, json |-> EmptyDict]

get_call(resp) ==
    IF resp.kind = "json"
    THEN [code |-> resp.status, json |-> resp.body]
    ELSE [code |-> NetworkErrorCode, json |-> EmptyDict]

----------------------------------------------------------------------------
\* api_checker.py: batch_fetch_data, the pure parts

\* str.count of a one-character string
RECURSIVE Count(_, _)
Count(s, c) ==
    IF s = <<>> THEN 0
    ELSE (IF Head(s) = c THEN 1 ELSE 0) + Count(Tail(s), c)

\* api_endpoints['paths'][key]
PathItem(paths, key) == paths[CHOOSE i \in DOMAIN paths : paths[i].key = key].item

\* variant of the condition below: any number of '/' from one up
IsSelectedAnyDepth(paths, key) ==
    Count(key, "/") >= 1 /\ PathItem(paths, key).hasGet

\* the condition of the ep_list comprehension
IsSelected(paths, key) ==
    Count(key, "/") = 1 /\ PathItem(paths, key).hasGet

\* ep_list: the keys of 'paths', in the dict's order, that pass the condition
RECURSIVE EpListFrom(_, _)
EpListFrom(paths, rest) ==
    IF rest = <<>> THEN <<>>
    ELSE (IF IsSelected(paths, Head(rest).key) THEN <<Head(rest).key>> ELSE <<>>)
         \o EpListFrom(paths, Tail(rest))

EpList(paths) == EpListFrom(paths, paths)

\* base_url
BaseUrl == <<"https://", HostValue, BasePathValue>>

\* variant of params below: the 'required' flag is not looked at
RECURSIVE RequiredParamsAll(_)
RequiredParamsAll(parameters) ==
    IF parameters = <<>> THEN <<>>
    ELSE <<Head(parameters).name>> \o RequiredParamsAll(Tail(parameters))

\* params: the names of the parameters that have a true 'required'
RECURSIVE RequiredParams(_)
RequiredParams(parameters) ==
    IF parameters = <<>> THEN <<>>
    ELSE (IF Head(parameters).hasRequired /\ Head(parameters).required
          THEN <<Head(parameters).name>> ELSE <<>>)
         \o RequiredParams(Tail(parameters))

\* params_wo_input: the names of params that are no key of the defaults
RECURSIVE ParamsWoInput(_, _)
ParamsWoInput(params, defaults) ==
    IF params = <<>> THEN <<>>
    ELSE (IF Head(params) \notin DOMAIN defaults THEN <<Head(params)>> ELSE <<>>)
         \o ParamsWoInput(Tail(params), defaults)

\* param_str: "&".join of f"{param}={default_params[param]}"
RECURSIVE ParamStr(_, _)
ParamStr(params, defaults) ==
    IF params = <<>> THEN <<>>
    ELSE <<Head(params), "=", PyStr(defaults[Head(params)])>>
         \o (IF Tail(params) = <<>> THEN <<>> ELSE <<"&">>)
         \o ParamStr(Tail(params), defaults)

\* whether the operation is skipped: it has a 'parameters' key and a required
\* parameter without input
IsSkipped(item, defaults) ==
    item.hasParams /\ Len(ParamsWoInput(RequiredParams(item.parameters), defaults)) > 0

\* call_url as passed to get_call
CallUrl(ep, item, defaults) ==
    LET params == RequiredParams(item.parameters)
    IN  IF item.hasParams /\ Len(params) > 0
        THEN BaseUrl \o ep \o <<"?">> \o ParamStr(params, defaults)
        ELSE BaseUrl \o ep

\* the outcome appended for a skipped operation
SkippedCode == 500
SkippedOutcome(ep) ==
    [path |-> ep, full_url |-> BaseUrl \o ep, code |-> SkippedCode, result |-> "skipped"]

\* result_exists
ResultExists(json) == IF Truthy(json) THEN "exists" ELSE "empty"

\* the outcome appended after a call
CallOutcome(ep, url, r) ==
    [path |-> ep, full_url |-> url, code |-> r.code, result |-> ResultExists(r.json)]

\* variant of results.append below: the last outcome is overwritten
AppendOverwriting(rs, o) == IF rs = <<>> THEN <<o>> ELSE [rs EXCEPT ![Len(rs)] = o]

\* results.append
RecordOutcome(rs, o) == Append(rs, o)

\* variant of results = list() below: the list of the call before is kept
NewResultsKept == results

\* results = list()
NewResults == <<>>

\* variant of AfterSkip: the skipped pass sleeps too
AfterSkipSleeping == "sleep"

\* where the loop goes after `continue`
AfterSkip == "loop"

\* variant of AfterCall: no sleep after the call
AfterCallNoSleep == "loop"

\* where the loop goes after the call's append: time.sleep(1)
AfterCall == "sleep"

----------------------------------------------------------------------------
\* api_checker.py: __main__ and batch_fetch_data, step by step

\* api_endpoints == dict()
IsEmptyDict(endpoints) ==
    endpoints.kind = "map" /\ endpoints.keys = {} /\ ~endpoints.extra

\* variant of StartupError below: the defaults are not checked
StartupErrorDefaultsUnchecked(key, endpoints, defaults) ==
    IF key = "" THEN "Exception"
    ELSE IF IsEmptyDict(endpoints) THEN "Exception"
    ELSE ""

\* the three checks of __main__ before batch_fetch_data: the exception raised,
\* "" when none
StartupError(key, endpoints, defaults) ==
    IF key = "" THEN "Exception"
    ELSE IF IsEmptyDict(endpoints) THEN "Exception"
    ELSE IF DOMAIN defaults = {} THEN "Exception"
    ELSE ""

\* what the subscripts of batch_fetch_data raise before its loop:
\* api_endpoints['host'], ['basePath'] for base_url and ['paths'] for ep_list
BatchStartError(endpoints) ==
    IF endpoints.kind # "map" THEN "TypeError"
    ELSE IF "host" \notin endpoints.keys THEN "KeyError"
    ELSE IF "basePath" \notin endpoints.keys THEN "KeyError"
    ELSE IF "paths" \notin endpoints.keys THEN "KeyError"
    ELSE ""

\* default of the --interval option, minutes
DefaultInterval == 60

daemonIdle ==
    /\ interval = DefaultInterval
    /\ dpc = "off"
    /\ cycles = 0
    /\ dCalls = 0
    /\ dCycleCalls = 0
    /\ intervalSleeps = 0
    /\ sleptSinceCycle = FALSE
    /\ failedSinceSleep = FALSE
    /\ enodebs = "None"
    /\ logsWritten = 0
    /\ latestWrites = 0
    /\ clock = [m |-> 0, s |-> 0, ns |-> 0]

checkerStart ==
    /\ fatal = ""
    /\ ep_list = <<>>
    /\ idx = 0
    /\ results = <<>>
    /\ fileWritten = FALSE
    /\ httpCalls = 0
    /\ sleeps = 0
    /\ sleptSeconds = 0
    /\ lastUrl = <<>>
    /\ lastResp = NoResp
    /\ run = 1
    /\ firstResults = <<>>
    /\ service = <<>>

\* the script is started on three input files
Init ==
    /\ api_key \in ApiKeys
    /\ api_endpoints \in Descriptions
    /\ default_params \in DefaultsMappings
    /\ pc = "load"
    /\ checkerStart
    /\ daemonIdle

\* __main__: the three files are read; yaml.safe_load raises on a file that is
\* not YAML
MainLoad ==
    /\ pc = "load"
    /\ IF api_endpoints.kind = "unparsable"
       THEN pc' = "fatal" /\ fatal' = "YAMLError"
       ELSE pc' = "validate" /\ fatal' = fatal
    /\ UNCHANGED <<api_key, api_endpoints, default_params, ep_list, idx, results,
                   fileWritten, httpCalls, sleeps, sleptSeconds, lastUrl, lastResp>>
    /\ UNCHANGED <<twiceVars, daemonVars>>

\* __main__: the three `raise Exception` checks
MainValidate ==
    /\ pc = "validate"
    /\ LET e == StartupError(api_key, api_endpoints, default_params)
       IN  IF e # ""
           THEN pc' = "fatal" /\ fatal' = e
           ELSE pc' = "batch" /\ fatal' = fatal
    /\ UNCHANGED <<api_key, api_endpoints, default_params, ep_list, idx, results,
                   fileWritten, httpCalls, sleeps, sleptSeconds, lastUrl, lastResp>>
    /\ UNCHANGED <<twiceVars, daemonVars>>

\* batch_fetch_data up to its loop: base_url, headers, results, ep_list
BatchStart ==
    /\ pc = "batch"
    /\ LET e == BatchStartError(api_endpoints)
       IN  IF e # ""
           THEN /\ pc' = "fatal"
                /\ fatal' = e
                /\ UNCHANGED <<results, ep_list, idx>>
           ELSE /\ pc' = "loop"
                /\ fatal' = fatal
                /\ results' = NewResults
                /\ ep_list' = EpList(api_endpoints.paths)
                /\ idx' = 0
    /\ UNCHANGED <<api_key, api_endpoints, default_params, fileWritten, httpCalls,
                   sleeps, sleptSeconds, lastUrl, lastResp>>
    /\ UNCHANGED <<twiceVars, daemonVars>>

\* the operation the loop is at
CurrentEp == ep_list[idx + 1]
CurrentItem == PathItem(api_endpoints.paths, CurrentEp)

\* one pass of the loop that ends in `continue`
Skip ==
    /\ pc = "loop"
    /\ idx < Len(ep_list)
    /\ IsSkipped(CurrentItem, default_params)
    /\ results' = RecordOutcome(results, SkippedOutcome(CurrentEp))
    /\ idx' = idx + 1
    /\ pc' = AfterSkip
    /\ lastUrl' = <<>>
    /\ lastResp' = NoResp
    /\ UNCHANGED <<api_key, api_endpoints, default_params, fatal, ep_list,
                   fileWritten, httpCalls, sleeps, sleptSeconds>>
    /\ UNCHANGED <<twiceVars, daemonVars>>

\* one pass of the loop that calls get_call, up to the append, the service
\* doing resp
Probe(resp) ==
    /\ pc = "loop"
    /\ idx < Len(ep_list)
    /\ ~IsSkipped(CurrentItem, default_params)
    /\ LET url == CallUrl(CurrentEp, CurrentItem, default_params)
       IN  /\ results' = RecordOutcome(results, CallOutcome(CurrentEp, url, get_call(resp)))
           /\ lastUrl' = url
    /\ lastResp' = resp
    /\ httpCalls' = httpCalls + 1
    /\ idx' = idx + 1
    /\ pc' = AfterCall
    /\ UNCHANGED <<api_key, api_endpoints, default_params, fatal, ep_list,
                   fileWritten, sleeps, sleptSeconds>>
    /\ UNCHANGED daemonVars

Call ==
    /\ \E resp \in Responses : Probe(resp)
    /\ UNCHANGED twiceVars

\* time.sleep(1)
RateLimitSeconds == 1

Sleep ==
    /\ pc = "sleep"
    /\ sleeps' = sleeps + 1
    /\ sleptSeconds' = sleptSeconds + RateLimitSeconds
    /\ pc' = "loop"
    /\ lastUrl' = <<>>
    /\ lastResp' = NoResp
    /\ UNCHANGED <<api_key, api_endpoints, default_params, fatal, ep_list, idx,
                   results, fileWritten, httpCalls>>
    /\ UNCHANGED <<twiceVars, daemonVars>>

\* the loop is over: return results
Return ==
    /\ pc = "loop"
    /\ idx >= Len(ep_list)
    /\ pc' = "returned"
    /\ UNCHANGED <<api_key, api_endpoints, default_params, fatal, ep_list, idx,
                   results, fileWritten, httpCalls, sleeps, sleptSeconds, lastUrl, lastResp>>
    /\ UNCHANGED <<twiceVars, daemonVars>>

\* __main__: json.dump of the results
WriteOutput ==
    /\ pc = "returned"
    /\ fileWritten' = TRUE
    /\ pc' = "done"
    /\ UNCHANGED <<api_key, api_endpoints, default_params, fatal, ep_list, idx,
                   results, httpCalls, sleeps, sleptSeconds, lastUrl, lastResp>>
    /\ UNCHANGED <<twiceVars, daemonVars>>

Next ==
    \/ MainLoad
    \/ MainValidate
    \/ BatchStart
    \/ Skip
    \/ Call
    \/ Sleep
    \/ Return
    \/ WriteOutput

Spec == Init /\ [][Next]_vars

----------------------------------------------------------------------------
\* batch_fetch_data called twice with the same arguments, against a service
\* that answers a URL it has answered before the same way

\* the answers the service may give in this setting
RepeatableResponses ==
    { [kind |-> "Timeout", status |-> 0, body |-> NullBody],
      [kind |-> "json", status |-> 200, body |-> [kind |-> "array", val |-> 1]],
      [kind |-> "json", status |-> 200, body |-> EmptyDict],
      [kind |-> "json", status |-> 404, body |-> [kind |-> "object", val |-> 1]] }

\* the service's earlier answer to url, NoResp when it was never called
Answered(url) ==
    IF \E i \in DOMAIN service : service[i].url = url
    THEN service[CHOOSE i \in DOMAIN service : service[i].url = url].resp
    ELSE NoResp

InitTwice ==
    /\ api_key = "k"
    /\ api_endpoints \in WellFormedDescriptions
    /\ default_params \in DefaultsMappings
    /\ pc = "batch"
    /\ checkerStart
    /\ daemonIdle

CallRepeatable ==
    /\ pc = "loop"
    /\ idx < Len(ep_list)
    /\ ~IsSkipped(CurrentItem, default_params)
    /\ LET url == CallUrl(CurrentEp, CurrentItem, default_params)
       IN  \E resp \in RepeatableResponses :
              /\ Answered(url) \in {NoResp, resp}
              /\ Probe(resp)
              /\ service' = IF Answered(url) = NoResp
                            THEN Append(service, [url |-> url, resp |-> resp])
                            ELSE service
    /\ UNCHANGED <<run, firstResults>>

\* the first call has returned: the caller keeps its result and calls again
CallAgain ==
    /\ pc = "returned"
    /\ run = 1
    /\ firstResults' = results
    /\ run' = 2
    /\ pc' = "batch"
    /\ httpCalls' = 0
    /\ sleeps' = 0
    /\ sleptSeconds' = 0
    /\ UNCHANGED <<api_key, api_endpoints, default_params, fatal, ep_list, idx,
                   results, fileWritten, lastUrl, lastResp, service>>
    /\ UNCHANGED daemonVars

NextTwice ==
    \/ BatchStart
    \/ Skip
    \/ CallRepeatable
    \/ Sleep
    \/ Return
    \/ CallAgain

SpecTwice == InitTwice /\ [][NextTwice]_vars

----------------------------------------------------------------------------
\* api_logger.py: the daemon

\* What get_call of api_logger.py returns: None after any except branch
\* (raise_for_status makes an HTTP error status one of them), else the decoded
\* body: an array, an object without a 'success' key, or an object with one
\* (false; true with a 'data' key; true without).
LoggerResults ==
    {"None", "array", "object", "success_false", "success_data", "success_nodata"}

\* what `if (result['success']): output[...] = result['data']` raises on a
\* result, "" when nothing
SubscriptError(result) ==
    CASE result \in {"None", "array"}  -> "TypeError"
      [] result \in {"object", "success_nodata"} -> "KeyError"
      [] OTHER -> ""

\* time.sleep counts nanoseconds in a signed 64-bit integer, the length as well
\* as the deadline (the reading of the monotonic clock plus the length).  Its
\* largest value, 2^63 - 1 ns, is 153722867 min 16 s 854775807 ns.
MaxSleepMinutes == 153722867

MaxSleepSeconds == 16

MaxSleepNanos == 854775807

\* a point of the monotonic clock: minutes, seconds of the minute, nanoseconds
\* of the second
ClockLimit == [m |-> MaxSleepMinutes, s |-> MaxSleepSeconds, ns |-> MaxSleepNanos]

Later(a, b) ==
    \/ a.m > b.m
    \/ a.m = b.m /\ a.s > b.s
    \/ a.m = b.m /\ a.s = b.s /\ a.ns > b.ns

\* the point 'minutes' minutes and 'seconds' seconds after point c
Advance(c, minutes, seconds) ==
    [m  |-> c.m + minutes + ((c.s + seconds) \div 60),
     s  |-> (c.s + seconds) % 60,
     ns |-> c.ns]

\* readings of the monotonic clock the environment offers: early ones, the
\* last one that leaves room for a sleep of MaxSleepMinutes and the first one
\* that does not, and a later one
ClockReadings ==
    { [m |-> 0,  s |-> 15, ns |-> 0],
      [m |-> 0,  s |-> MaxSleepSeconds, ns |-> MaxSleepNanos],
      [m |-> 0,  s |-> MaxSleepSeconds, ns |-> MaxSleepNanos + 1],
      [m |-> 14, s |-> 8,  ns |-> 0] }

\* what a call of time.sleep can read when the clock has reached point c: the
\* clock never goes back
Readings(c) == { r \in ClockReadings \cup {c} : ~Later(c, r) }

\* values of the --interval option (type=int): the default, zero, a negative
\* one, and on either side the last value whose seconds time.sleep converts
\* and the first it does not
Intervals ==
    {-(MaxSleepMinutes + 1), -MaxSleepMinutes, -1, 0, DefaultInterval,
     MaxSleepMinutes, MaxSleepMinutes + 1}

\* What time.sleep raises on a length of 'minutes' minutes and 'seconds'
\* seconds (not both non-zero with different signs) when the clock reads
\* 'reading', "" when it sleeps.  In the order of the checks: OverflowError
\* when the length does not convert to nanoseconds, ValueError when it is
\* negative, OSError when the deadline is past the largest nanosecond count.
SleepError(minutes, seconds, reading) ==
    IF \/ minutes > MaxSleepMinutes
       \/ minutes = MaxSleepMinutes /\ seconds > MaxSleepSeconds
       \/ minutes < -MaxSleepMinutes
       \/ minutes = -MaxSleepMinutes /\ seconds < -MaxSleepSeconds
    THEN "OverflowError"
    ELSE IF minutes < 0 \/ seconds < 0 THEN "ValueError"
    ELSE IF Later(Advance(reading, minutes, seconds), ClockLimit) THEN "OSError"
    ELSE ""

InitDaemon ==
    /\ api_key = ""
    /\ api_endpoints = [kind |-> "null", keys |-> {}, extra |-> FALSE, paths |-> <<>>]
    /\ default_params = <<>>
    /\ pc = "off"
    /\ checkerStart
    /\ interval \in Intervals
    /\ dpc = "read_key"
    /\ cycles = 0
    /\ dCalls = 0
    /\ dCycleCalls = 0
    /\ intervalSleeps = 0
    /\ sleptSinceCycle = FALSE
    /\ failedSinceSleep = FALSE
    /\ enodebs = "None"
    /\ logsWritten = 0
    /\ latestWrites = 0
    /\ clock = [m |-> 0, s |-> 0, ns |-> 0]

\* an except branch of the main loop that logs and lets the loop go round
Handled ==
    /\ dpc' = "read_key"
    /\ failedSinceSleep' = TRUE

\* the top of the loop body: the API key file is read
DReadKey ==
    /\ dpc = "read_key"
    /\ cycles < MaxCycles
    /\ cycles' = cycles + 1
    /\ dCycleCalls' = 0
    /\ sleptSinceCycle' = FALSE
    /\ enodebs' = "None"
    /\ \E keyFileExists \in BOOLEAN :
          IF keyFileExists
          THEN dpc' = "get_enodebs" /\ failedSinceSleep' = failedSinceSleep
          ELSE Handled
    /\ UNCHANGED <<interval, dCalls, intervalSleeps, logsWritten, latestWrites,
                   clock>>
    /\ UNCHANGED <<checkerVars, twiceVars>>

\* batch_fetch_data: get_call for the eNodeBs and the use of its result
DFetchEnodebs ==
    /\ dpc = "get_enodebs"
    /\ dCalls' = dCalls + 1
    /\ dCycleCalls' = dCycleCalls + 1
    /\ \E result \in LoggerResults :
          IF SubscriptError(result) # ""
          THEN Handled /\ enodebs' = enodebs
          ELSE /\ dpc' = "rate_sleep"
               /\ failedSinceSleep' = failedSinceSleep
               /\ enodebs' = IF result = "success_data" THEN "data" ELSE enodebs
    /\ UNCHANGED <<interval, cycles, intervalSleeps, sleptSinceCycle, logsWritten,
                   latestWrites, clock>>
    /\ UNCHANGED <<checkerVars, twiceVars>>

\* batch_fetch_data: time.sleep(1), inside the try of the main loop
DRateSleep ==
    /\ dpc = "rate_sleep"
    /\ \E reading \in Readings(clock) :
          IF SleepError(0, RateLimitSeconds, reading) # ""
          THEN Handled /\ clock' = reading
          ELSE /\ dpc' = "get_devices"
               /\ failedSinceSleep' = failedSinceSleep
               /\ clock' = Advance(reading, 0, RateLimitSeconds)
    /\ UNCHANGED <<interval, cycles, dCalls, dCycleCalls, intervalSleeps,
                   sleptSinceCycle, enodebs, logsWritten, latestWrites>>
    /\ UNCHANGED <<checkerVars, twiceVars>>

\* batch_fetch_data: get_call for the devices and the use of its result
DFetchDevices ==
    /\ dpc = "get_devices"
    /\ dCalls' = dCalls + 1
    /\ dCycleCalls' = dCycleCalls + 1
    /\ \E result \in LoggerResults :
          IF SubscriptError(result) # ""
          THEN Handled
          ELSE dpc' = "write_logs" /\ failedSinceSleep' = failedSinceSleep
    /\ UNCHANGED <<interval, cycles, intervalSleeps, sleptSinceCycle, enodebs,
                   logsWritten, latestWrites, clock>>
    /\ UNCHANGED <<checkerVars, twiceVars>>

\* batch_fetch_data: the timestamped file of the log directory is opened,
\* written and closed; open() may raise OSError
DWriteLog ==
    /\ dpc = "write_logs"
    /\ \E opened \in BOOLEAN :
          IF opened
          THEN /\ logsWritten' = logsWritten + 1
               /\ dpc' = "write_latest"
               /\ failedSinceSleep' = failedSinceSleep
          ELSE Handled /\ logsWritten' = logsWritten
    /\ UNCHANGED <<interval, cycles, dCalls, dCycleCalls, intervalSleeps,
                   sleptSinceCycle, enodebs, latestWrites, clock>>
    /\ UNCHANGED <<checkerVars, twiceVars>>

\* batch_fetch_data: latest.json is opened and written after the log file is
\* closed; when this open() raises, the log file of the cycle stays written
DWriteLatest ==
    /\ dpc = "write_latest"
    /\ \E opened \in BOOLEAN :
          IF opened
          THEN /\ latestWrites' = latestWrites + 1
               /\ dpc' = "interval_sleep"
               /\ failedSinceSleep' = failedSinceSleep
          ELSE Handled /\ latestWrites' = latestWrites
    /\ UNCHANGED <<interval, cycles, dCalls, dCycleCalls, intervalSleeps,
                   sleptSinceCycle, enodebs, logsWritten, clock>>
    /\ UNCHANGED <<checkerVars, twiceVars>>

\* time.sleep(args.interval * 60), inside the try: when it raises, the
\* except branch is taken and no time has been slept
DIntervalSleep ==
    /\ dpc = "interval_sleep"
    /\ \E reading \in Readings(clock) :
          IF SleepError(interval, 0, reading) # ""
          THEN /\ Handled
               /\ clock' = reading
               /\ UNCHANGED <<intervalSleeps, sleptSinceCycle>>
          ELSE /\ intervalSleeps' = intervalSleeps + 1
               /\ sleptSinceCycle' = TRUE
               /\ failedSinceSleep' = FALSE
               /\ dpc' = "read_key"
               /\ clock' = Advance(reading, interval, 0)
    /\ UNCHANGED <<interval, cycles, dCalls, dCycleCalls, enodebs, logsWritten,
                   latestWrites>>
    /\ UNCHANGED <<checkerVars, twiceVars>>

\* KeyboardInterrupt inside the try: break
DInterrupt ==
    /\ dpc \notin {"off", "exited"}
    /\ dpc' = "exited"
    /\ UNCHANGED <<interval, cycles, dCalls, dCycleCalls, intervalSleeps,
                   sleptSinceCycle, failedSinceSleep, enodebs, logsWritten,
                   latestWrites, clock>>
    /\ UNCHANGED <<checkerVars, twiceVars>>

NextDaemon ==
    \/ DReadKey
    \/ DFetchEnodebs
    \/ DRateSleep
    \/ DFetchDevices
    \/ DWriteLog
    \/ DWriteLatest
    \/ DIntervalSleep
    \/ DInterrupt

SpecDaemon == InitDaemon /\ [][NextDaemon]_vars

----------------------------------------------------------------------------
\* Vocabulary of the properties, stated on the inputs and not through the
\* operators above

Paths == api_endpoints.paths

\* number of '/' characters of a path key
Separators(key) == Cardinality({ k \in DOMAIN key : key[k] = "/" })

\* positions in 'paths' of the eligible operations
EligibleIdx == { i \in DOMAIN Paths : Separators(Paths[i].key) = 1 /\ Paths[i].item.hasGet }

\* position in 'paths' of a key
PosOf(key) == CHOOSE i \in DOMAIN Paths : Paths[i].key = key

\* positions in a 'parameters' list of the required parameters
RequiredIdx(item) ==
    { j \in DOMAIN item.parameters :
        item.parameters[j].hasRequired /\ item.parameters[j].required }

\* the k-th required parameter of an operation
NthRequired(item, k) ==
    item.parameters[CHOOSE j \in RequiredIdx(item) :
                        Cardinality({ h \in RequiredIdx(item) : h <= j }) = k]

HasMissingInput(item) ==
    \E j \in RequiredIdx(item) : item.parameters[j].name \notin DOMAIN default_params

\* the text of the default of a parameter
DefaultText(name) == IF name = "p" THEN "10" ELSE "x"

\* batch_fetch_data is past the computation of ep_list
InBatch == pc \in {"loop", "sleep", "returned", "done"}

LastOutcome == results[Len(results)]

JustCalled == pc = "sleep" /\ lastResp # NoResp /\ results # <<>>

----------------------------------------------------------------------------
\* what C1 says of the outcomes: one per eligible operation handled so far, in
\* the order of the description, and the loop always has a next step
C1_OneOutcomePerOperation ==
    /\ InBatch =>
         /\ Len(results) = idx
         /\ idx <= Cardinality(EligibleIdx)
         /\ \A i \in DOMAIN results :
               /\ PosOf(results[i].path) \in EligibleIdx
               /\ Cardinality({ h \in EligibleIdx : h <= PosOf(results[i].path) }) = i
    /\ pc \in {"returned", "done"} => Len(results) = Cardinality(EligibleIdx)
    /\ pc \in {"loop", "sleep"} => ENABLED Next

\* batch_fetch_data has raised: the exceptions of the script other than those
\* __main__ raises itself before calling it
BatchRaised == pc = "fatal" /\ fatal \in {"KeyError", "TypeError"}

\* what C1 says of a step: results only grows, by appending
C1_AppendOnly ==
    \/ results' = results
    \/ /\ Len(results') = Len(results) + 1
       /\ SubSeq(results', 1, Len(results)) = results

\* C1: for every description, defaults and behaviour of the service,
\* batch_fetch_data runs to completion and returns exactly one outcome per
\* eligible operation, in the order of the description; a skipped or failed
\* operation never aborts the run nor removes an outcome, and no outcome
\* already appended is changed later.  (Read in its favour: an empty file, which
\* loads as None and not as a mapping, is not counted as a description.)
C1_CompletesForEveryDescription ==
    /\ [](C1_OneOutcomePerOperation /\ (api_endpoints.kind = "map" => ~BatchRaised))
    /\ [][C1_AppendOnly]_vars

\* the description has the three top-level entries batch_fetch_data subscripts
HasTopLevelEntries ==
    /\ api_endpoints.kind = "map"
    /\ TopKeys \subseteq api_endpoints.keys

\* what C1, amended, says of a state: with the three top-level entries
\* batch_fetch_data never raises; without one of them it raises before the
\* loop, with no outcome and no HTTP call
C1_CompletesOrRaisesAtStart ==
    /\ C1_OneOutcomePerOperation
    /\ HasTopLevelEntries => ~BatchRaised
    /\ BatchRaised => results = <<>> /\ httpCalls = 0

\* C1, amended: for every description that has 'host', 'basePath' and
\* 'paths', every defaults and every behaviour of the service,
\* batch_fetch_data runs to completion and returns exactly one outcome per
\* eligible operation, in the order of the description; a skipped or failed
\* operation never aborts the run nor removes an outcome, and no outcome
\* already appended is changed later.  On a description without one of the
\* three entries it raises before the loop.
C1_RunCompletes == []C1_CompletesOrRaisesAtStart /\ [][C1_AppendOnly]_vars

C1_Witness ==
    /\ HasTopLevelEntries
    /\ pc = "returned"
    /\ Len(results) = 2
    /\ results[1].result = "skipped"
    /\ results[2].code = 500
    /\ results[2].result = "empty"

\* C2: the paths that receive an outcome are exactly the paths of the
\* description with exactly one '/' and a 'get' operation; the others get no
\* outcome and no HTTP call; the selected paths keep the description's order.
C2_SelectionRule ==
    InBatch =>
      /\ { ep_list[i] : i \in DOMAIN ep_list } = { Paths[i].key : i \in EligibleIdx }
      /\ Len(ep_list) = Cardinality(EligibleIdx)
      /\ \A i, j \in DOMAIN ep_list : i < j => PosOf(ep_list[i]) < PosOf(ep_list[j])
      /\ \A i \in DOMAIN results : results[i].path = ep_list[i]
      /\ httpCalls <= Len(results)
      /\ lastUrl # <<>> =>
            \E i \in EligibleIdx :
               SubSeq(lastUrl, 1, Len(BaseUrl) + Len(Paths[i].key)) = BaseUrl \o Paths[i].key
      /\ pc \in {"returned", "done"} =>
            { results[i].path : i \in DOMAIN results } = { Paths[i].key : i \in EligibleIdx }

C2_Witness ==
    /\ pc = "returned"
    /\ Len(Paths) = 2
    /\ Paths[1].key = <<"/", "a", "/", "b">>
    /\ Paths[1].item.hasGet
    /\ Len(results) = 1
    /\ results[1].path = Paths[2].key

\* C3: the URL called and recorded as full_url is base URL + path, followed by
\* '?' and the query string iff the operation has a required parameter; the
\* query string is the name=value pairs of exactly the required parameters, in
\* declared order, joined by '&', each value taken from the defaults.
C3_QueryString ==
    JustCalled =>
      LET ep   == LastOutcome.path
          item == Paths[PosOf(ep)].item
          n    == Cardinality(RequiredIdx(item))
          base == Len(BaseUrl) + Len(ep)
      IN  /\ LastOutcome.full_url = lastUrl
          /\ SubSeq(lastUrl, 1, base) = BaseUrl \o ep
          /\ Len(lastUrl) = base + 4 * n
          /\ (\E k \in DOMAIN lastUrl : lastUrl[k] = "?") <=> n > 0
          /\ \A k \in 1..n :
                /\ lastUrl[base + 4 * (k - 1) + 1] = (IF k = 1 THEN "?" ELSE "&")
                /\ lastUrl[base + 4 * (k - 1) + 2] = NthRequired(item, k).name
                /\ lastUrl[base + 4 * (k - 1) + 3] = "="
                /\ lastUrl[base + 4 * (k - 1) + 4] = DefaultText(NthRequired(item, k).name)

C3_Witness ==
    /\ JustCalled
    /\ lastUrl = BaseUrl \o <<"/", "b", "?", "q", "=", "x", "&", "p", "=", "10">>

\* C4: an eligible operation with a required parameter absent from the
\* defaults, and no other, gets the outcome {code: 500, result: "skipped"}
\* with the unparameterized URL, no HTTP call and no sleep, and the run goes
\* on to the next operation.
C4_SkipUnresolvable ==
    InBatch =>
      /\ \A i \in DOMAIN results :
            LET item == Paths[PosOf(results[i].path)].item
            IN  /\ HasMissingInput(item) <=> results[i].result = "skipped"
                /\ HasMissingInput(item) =>
                      results[i] = [path |-> results[i].path,
                                    full_url |-> BaseUrl \o results[i].path,
                                    code |-> 500,
                                    result |-> "skipped"]
      /\ httpCalls = Cardinality({ i \in DOMAIN results : results[i].result # "skipped" })
      /\ sleeps <= httpCalls
      /\ (results # <<>> /\ LastOutcome.result = "skipped" /\ pc # "loop") =>
            (pc \in {"returned", "done"} /\ sleeps = httpCalls)

C4_Witness ==
    /\ pc = "returned"
    /\ Len(results) = 2
    /\ results[1].result = "skipped"
    /\ results[2].result = "exists"
    /\ httpCalls = 1
    /\ sleeps = 1

\* C5: each performed HTTP call, the last one included, is followed by exactly
\* one sleep that completes before the next operation is handled, and there is
\* no other sleep: the sleeps of a run are as many as its HTTP calls.
C5_SleepAfterEachCall ==
    InBatch =>
      /\ pc = "sleep" => httpCalls = sleeps + 1
      /\ pc # "sleep" => httpCalls = sleeps
      /\ sleptSeconds = 1 * sleeps
      /\ lastResp # NoResp => pc = "sleep"

C5_Witness ==
    /\ pc = "returned"
    /\ httpCalls = 2
    /\ sleeps = 2
    /\ results[2].code = 500

\* C6: a call that fails at network level is recorded with code 500, is not
\* given the result "empty", and stays distinguishable from the outcome of an
\* HTTP 500 reply with body {}.
C6_NetworkErrorDistinct ==
    (JustCalled /\ lastResp.kind # "json") =>
      /\ LastOutcome.code = 500
      /\ LastOutcome.result # "empty"
      /\ LastOutcome #
           CallOutcome(LastOutcome.path, lastUrl,
                       get_call([kind |-> "json", status |-> 500, body |-> EmptyDict]))

\* the truthy JSON values: non-empty object, array and string, non-zero
\* number, true
TruthyBodies ==
    { [kind |-> k, val |-> 1] : k \in {"object", "array", "number", "string", "boolean"} }

\* C7: a call that returns a decodable JSON body, whatever its status, is
\* recorded with the status code returned and with "exists" iff the body is
\* truthy, "empty" otherwise.
C7_StatusAndPresence ==
    (JustCalled /\ lastResp.kind = "json") =>
      /\ LastOutcome.code = lastResp.status
      /\ LastOutcome.result = "exists" <=> lastResp.body \in TruthyBodies
      /\ LastOutcome.result = "empty" <=> lastResp.body \notin TruthyBodies

C7_Witness ==
    /\ JustCalled
    /\ lastResp = [kind |-> "json", status |-> 404, body |-> [kind |-> "object", val |-> 1]]
    /\ LastOutcome.code = 404
    /\ LastOutcome.result = "exists"

\* the run is before batch_fetch_data's loop or has failed, and has probed nothing
NoProbing ==
    /\ pc \in {"load", "validate", "batch", "fatal"}
    /\ httpCalls = 0
    /\ results = <<>>
    /\ ~fileWritten
    /\ pc # "fatal" => ENABLED Next

\* the inputs C8 lists
InvalidAsClaimed ==
    \/ api_key = ""
    \/ api_endpoints.kind \in {"unparsable", "null"}
    \/ IsEmptyDict(api_endpoints)
    \/ "paths" \notin api_endpoints.keys
    \/ DOMAIN default_params = {}

\* C8: with an empty API key, a description that is empty, unparsable or
\* without 'paths', or empty defaults, the run ends in a fatal error before
\* any HTTP call, with no outcome and no output file; and these are the only
\* inputs for which the run fails.
C8_FatalOnlyAsClaimed ==
    /\ InvalidAsClaimed => NoProbing
    /\ pc = "fatal" => InvalidAsClaimed

\* the inputs C8 lists, and a description without 'host' or 'basePath'
InvalidInputs ==
    \/ InvalidAsClaimed
    \/ "host" \notin api_endpoints.keys
    \/ "basePath" \notin api_endpoints.keys

\* C8, amended: with an empty API key, a description that is empty,
\* unparsable or without 'host', 'basePath' or 'paths', or empty defaults, the
\* run ends in a fatal error before any HTTP call, with no outcome and no
\* output file; and the run fails on no other input.
C8_FatalStartup ==
    /\ InvalidInputs => NoProbing
    /\ pc = "fatal" => InvalidInputs

C8_Witness ==
    /\ pc = "fatal"
    /\ fatal = "TypeError"
    /\ api_endpoints.kind = "null"
    /\ api_key # ""
    /\ DOMAIN default_params # {}

\* C9: two calls of batch_fetch_data with the same description and defaults,
\* against a service that answers each URL the same way, return the same list.
C9_SameOutcomesTwice ==
    run = 2 =>
      /\ pc \in {"loop", "sleep"} =>
            /\ Len(results) <= Len(firstResults)
            /\ results = SubSeq(firstResults, 1, Len(results))
      /\ pc = "returned" => results = firstResults

C9_Witness ==
    /\ run = 2
    /\ pc = "returned"
    /\ Len(results) = 2
    /\ results[1].result = "exists"
    /\ results[2].result = "skipped"
    /\ Len(service) = 1

\* what C10 says of a step
C10_Step ==
    /\ (cycles' = cycles + 1 /\ cycles > 0) => sleptSinceCycle
    /\ dCalls' = dCalls + 1 => ~failedSinceSleep

\* C10: between the starts of two consecutive fetch cycles the daemon sleeps
\* the interval, also after a failed cycle; a failed cycle is never followed
\* by HTTP calls without that sleep.
C10_SleepBetweenCycles == [][C10_Step]_vars

====
